---- MODULE Spec2Model ----
(***************************************************************************)
(* Yg-scovery: the concurrent crawl engine of crawler.go (type Crawler     *)
(* with sync.Map Visited, Start, checkConnection, doRequest,               *)
(* promptInsecure, crawl, validateLinksParallel, validateLink, addResult). *)
(*                                                                         *)
(* One goroutine is one record: the main goroutine (Start), one crawl      *)
(* record per call of crawl (the call at depth 0 runs on the main          *)
(* goroutine, every other one on the goroutine spawned at lines 339-344),  *)
(* one probe record per goroutine spawned at lines 361-382.                *)
(***************************************************************************)
EXTENDS Integers, Sequences, FiniteSets, TLC

(* ---------------------------------------------------------------------- *)
(* Bounds of the model.                                                    *)
(* ---------------------------------------------------------------------- *)
\* Config.MaxDepth ranges over 0..MaxDepthBound.
MaxDepthBound == 2
\* The capacity of the semaphore channel ranges over 1..MaxWorkers
\* (the program takes max(16, 4*NumCPU); the model scales it down).
MaxWorkers == 2

(* ---------------------------------------------------------------------- *)
(* Addresses.  An address string is a pair <<host, path>>, a path a        *)
(* sequence of segments; a parsed url.URL is a record [Host, Path].        *)
(* A path with the segment "%zz" carries an invalid escape: url.Parse      *)
(* rejects it.                                                             *)
(* ---------------------------------------------------------------------- *)
SeedHost == "site.test"
ExtHost == "ext.test"
BadSeg == "%zz"

NoURL == [Host |-> "", Path |-> << >>]
NoAddr == << "", << >> >>

\* url.Parse on an address string: [ok, u].
ParseURL(s) ==
    IF \E i \in 1..Len(s[2]) : s[2][i] = BadSeg
    THEN [ok |-> FALSE, u |-> NoURL]
    ELSE [ok |-> TRUE, u |-> [Host |-> s[1], Path |-> s[2]]]

\* (*url.URL).String
URLString(u) == << u.Host, u.Path >>

(* A candidate reference string, as Extract returns it:                    *)
(*   [host, form, path]: form "abs" (http://host/path), "root" (/path),    *)
(*   "dot" (./path); host is "" unless form is "abs".                      *)
AbsRef(h, p) == [host |-> h, form |-> "abs", path |-> p]
RootRef(p) == [host |-> "", form |-> "root", path |-> p]
DotRef(p) == [host |-> "", form |-> "dot", path |-> p]

\* The directory of a path: everything up to the last segment.
DirOf(p) == IF Len(p) = 0 THEN << >> ELSE SubSeq(p, 1, Len(p) - 1)

\* (*url.URL).Parse(ref): parse the reference, then resolve it against base.
ResolveRef(base, l) ==
    IF \E i \in 1..Len(l.path) : l.path[i] = BadSeg
    THEN [ok |-> FALSE, u |-> NoURL]
    ELSE IF l.form = "abs"
    THEN [ok |-> TRUE, u |-> [Host |-> l.host, Path |-> l.path]]
    ELSE IF l.form = "root"
    THEN [ok |-> TRUE, u |-> [Host |-> base.Host, Path |-> l.path]]
    ELSE [ok |-> TRUE, u |-> [Host |-> base.Host, Path |-> DirOf(base.Path) \o l.path]]

(* ---------------------------------------------------------------------- *)
(* Site graphs: what Extract returns for the body of each address.         *)
(* ---------------------------------------------------------------------- *)
Root == << >>
P == << "p" >>
Q == << "q" >>

\* The seed links /p by two strings and one external address; /p links /q
\* and itself; /q links the external address and a malformed reference.
SiteA(a) ==
    IF a = << SeedHost, Root >> THEN << RootRef(P), AbsRef(SeedHost, P), AbsRef(ExtHost, Root) >>
    ELSE IF a = << SeedHost, P >> THEN << RootRef(Q), DotRef(P) >>
    ELSE IF a = << SeedHost, Q >> THEN << AbsRef(ExtHost, Root), RootRef(<< BadSeg >>) >>
    ELSE IF a = << ExtHost, Root >> THEN << RootRef(P), AbsRef(SeedHost, Q) >>
    ELSE << >>

\* The seed fans out to /p and /q; /p links /q too, so /q is one hop and two
\* hops away from the seed, and /p links the seed; /q links an external
\* address that no other page links.
SiteB(a) ==
    IF a = << SeedHost, Root >> THEN << RootRef(P), RootRef(Q) >>
    ELSE IF a = << SeedHost, P >> THEN << DotRef(Q), RootRef(Root) >>
    ELSE IF a = << SeedHost, Q >> THEN << AbsRef(ExtHost, Q) >>
    ELSE IF a = << ExtHost, Q >> THEN << RootRef(P) >>
    ELSE << >>

Sites == {"A", "B"}

\* Extract(string(body)) for the body served at address a of site s.
Extract(s, a) == IF s = "A" THEN SiteA(a) ELSE SiteB(a)


(* ---------------------------------------------------------------------- *)
(* The network.  An outcome of one request is a transport error or a       *)
(* status; a page GET that answers 200 may still fail while its body is    *)
(* read.                                                                   *)
(* ---------------------------------------------------------------------- *)
Statuses == {200, 301, 404, 405, 500}
NetErrors == {"x509: certificate signed by unknown authority", "i/o timeout"}

Outcomes ==
    {[err |-> e, status |-> 0, body |-> TRUE] : e \in NetErrors}
    \cup {[err |-> "", status |-> s, body |-> TRUE] : s \in Statuses}

\* Outcomes of the page GET of crawl: the body read of a 200 may fail.
FetchOutcomes == Outcomes \cup {[err |-> "", status |-> 200, body |-> FALSE]}

\* doRequest line 220: the error text contains x509, certificate, tls or authority.
IsCertError(e) == e = "x509: certificate signed by unknown authority"

\* What the operator may type at the prompt.
Answers == {"", "Y", "yes", "n", "no"}

\* strings.ToLower(strings.TrimSpace(response))
Normalize(r) == IF r = "Y" THEN "y" ELSE r

(* ---------------------------------------------------------------------- *)
(* State.                                                                  *)
(* ---------------------------------------------------------------------- *)
VARIABLES
    cfg,        \* Config: TargetURL, MaxDepth, OnlyInternal, OnlyExternal
    site,       \* the site graph served by the network
    workers,    \* cap(c.semaphore)
    semaphore,  \* len(c.semaphore): tokens held
    insecure,   \* TLSClientConfig.InsecureSkipVerify of the clients' transport
    Visited,    \* keys of c.Visited
    validCache, \* c.validCache: address -> bool
    Results,    \* c.Results
    wg,         \* counter of c.wg
    main,       \* the goroutine that runs Start
    prompts,    \* number of times promptInsecure was entered
    crawls,     \* one record per call of crawl
    probes,     \* one record per goroutine of validateLinksParallel
    cacheHist   \* history per address: the first value stored in validCache,
                \* whether a later store changed the entry, and whether some
                \* HEAD probe of the address was answered with 200..399

vars == << cfg, site, workers, semaphore, insecure, Visited, validCache, Results,
           wg, main, prompts, crawls, probes, cacheHist >>

Seed == << SeedHost, Root >>
Malformed == << SeedHost, << BadSeg >> >>

EmptyMap == [x \in {} |-> FALSE]

Init ==
    /\ cfg \in [TargetURL : {Seed, Malformed}, MaxDepth : 0..MaxDepthBound,
                OnlyInternal : BOOLEAN, OnlyExternal : BOOLEAN]
    /\ site \in Sites
    /\ workers \in 1..MaxWorkers
    /\ semaphore = 0
    /\ insecure = FALSE
    /\ Visited = {}
    /\ validCache = EmptyMap
    /\ Results = << >>
    /\ wg = 0
    /\ main = [pc |-> "start", method |-> "", ret |-> "none", err |-> "",
               declined |-> FALSE]
    /\ prompts = 0
    /\ crawls = << >>
    /\ probes = << >>
    /\ cacheHist = EmptyMap

(* ---------------------------------------------------------------------- *)
(* Helpers that model single statements of the code.                       *)
(* ---------------------------------------------------------------------- *)
\* The stop condition of the sequential crawler (line 45).
DepthStopAfter(depth) == depth > cfg.MaxDepth

\* crawl line 290: the stop condition.
DepthStop(depth) == depth >= cfg.MaxDepth

\* A send on the semaphore that never blocks.
CanAcquireUngated == TRUE

\* c.semaphore <- struct{}{} can proceed (lines 341, 363).
CanAcquire == semaphore < workers

\* The check of line 223 left out.
AlreadyInsecureUnchecked == FALSE

\* doRequest line 223: insecure mode is already enabled.
AlreadyInsecure == insecure

\* Classification by path instead of host.
IsExternalByPath(res, base) == res.Path # base.Path

\* Classification against the resolved address itself.
IsExternalSelf(res, base) == res.Host # res.Host

\* validateLinksParallel line 371.
IsExternal(res, base) == res.Host # base.Host

\* validateLinksParallel line 373.
FilteredOut(isExternal) == cfg.OnlyInternal /\ isExternal

\* A store that reports no earlier entry.
StoreOnly(V, k) == [loaded |-> FALSE, set |-> V \cup {k}]

\* A loop that takes every validated link for internal.
TakenForInternal(li) == FALSE

\* crawl lines 321 and 327: the flag the loop branches on.
IsExternalLink(li) == li.isExternal

\* A filter that records internal addresses whatever the mode.
RecordsInternalAlways == TRUE

\* crawl line 328: external addresses are recorded.
RecordsExternal == ~cfg.OnlyInternal

\* crawl line 333: internal addresses are recorded.
RecordsInternal == ~cfg.OnlyExternal

\* c.Visited.LoadOrStore(abs, true), line 323: one atomic step.
LoadOrStore(V, k) == [loaded |-> k \in V, set |-> V \cup {k}]

\* A lookup that never finds the entry.
CacheLoadMiss(u) == [ok |-> FALSE, val |-> FALSE]

\* c.validCache.Load(u), line 398.
CacheLoad(u) ==
    IF u \in DOMAIN validCache
    THEN [ok |-> TRUE, val |-> validCache[u]]
    ELSE [ok |-> FALSE, val |-> FALSE]

\* A range check without its upper end.
ValidStatusOpen(status) == status >= 200

\* validateLink line 418.
ValidStatus(status) == status >= 200 /\ status < 400

\* doRequest lines 245-256: the error a status yields ("nil" for none).
StatusResult(status) ==
    IF status = 404 THEN "other"
    ELSE IF status >= 400 /\ status # 405 THEN "other"
    ELSE IF status = 405 THEN "other"
    ELSE "nil"

\* Start without the join barrier.
WaitReturnsAtOnce == TRUE

\* c.wg.Wait() of Start, line 186, can return.
WaitReturns == wg = 0

\* Network operations in flight: the request of doRequest, page GETs, probes.
InFlight ==
    (IF main.pc \in {"wait", "retry"} THEN 1 ELSE 0)
    + Cardinality({c \in 1..Len(crawls) : crawls[c].pc = "get"})
    + Cardinality({p \in 1..Len(probes) : probes[p].pc = "head"})


(* ---------------------------------------------------------------------- *)
(* Start, checkConnection, doRequest, promptInsecure (the main goroutine). *)
(*   main.pc: "start"  before url.Parse of line 170                        *)
(*            "wait"   doRequest: FastClient.Do of line 217 in flight      *)
(*            "prompt" promptInsecure: waiting for the operator's answer   *)
(*            "retry"  doRequest: FastClient.Do of line 235 in flight      *)
(*            "crawl"  crawl(norm, 0), line 183, is running (crawls[1])    *)
(*            "join"   c.wg.Wait(), line 186                               *)
(*            "returned"                                                   *)
(*   main.declined (history): the operator typed n or no at the prompt.    *)
(* ---------------------------------------------------------------------- *)
StartReturn(e, cause) ==
    [main EXCEPT !.pc = "returned", !.ret = e, !.err = cause]

\* The record of a call crawl(url, depth); root: the call made by Start.
NewCrawl(url, depth, root) ==
    [url |-> url, depth |-> depth, root |-> root,
     pc |-> IF root THEN "entry" ELSE "acquire",
     fetched |-> FALSE, results |-> << >>, validated |-> << >>, i |-> 0]

\* Start lines 170-174: parse the seed, enter checkConnection with HEAD.
StartParse ==
    /\ main.pc = "start"
    /\ main' = IF ParseURL(cfg.TargetURL).ok
               THEN [main EXCEPT !.pc = "wait", !.method = "HEAD"]
               ELSE StartReturn("err", "parse")
    /\ UNCHANGED << cfg, site, workers, semaphore, insecure, Visited, validCache,
                    Results, wg, prompts, crawls, probes, cacheHist >>

\* A check of the HEAD error that never recognises the abort.
IsAbortedNever(e) == FALSE

\* checkConnection line 200: the error says "aborted by user".
IsAborted(e) == e = "aborted"

\* A connectivity check whose GET fallback runs while the crawl has
\* already been started.
AfterDoRequestEager(m, e) ==
    IF e = "nil"
    THEN /\ main' = [m EXCEPT !.pc = "crawl"]
         /\ Visited' = Visited \cup {URLString(ParseURL(cfg.TargetURL).u)}
         /\ crawls' = IF crawls = << >>
                      THEN << NewCrawl(URLString(ParseURL(cfg.TargetURL).u), 0, TRUE) >>
                      ELSE crawls
    ELSE IF m.method = "HEAD" /\ ~IsAborted(e)
    THEN /\ main' = [m EXCEPT !.pc = "wait", !.method = "GET"]
         /\ Visited' = Visited \cup {URLString(ParseURL(cfg.TargetURL).u)}
         /\ crawls' = << NewCrawl(URLString(ParseURL(cfg.TargetURL).u), 0, TRUE) >>
    ELSE /\ main' = [m EXCEPT !.pc = "returned", !.ret = "err",
                              !.err = IF e = "aborted" THEN "aborted" ELSE "connect"]
         /\ UNCHANGED << Visited, crawls >>

\* doRequest has returned e ("nil", "aborted", "other") to checkConnection
\* (lines 192-208), which returns to Start (lines 177-183); m is the main
\* goroutine as doRequest leaves it.
AfterDoRequest(m, e) ==
    IF e = "nil"
    THEN /\ main' = [m EXCEPT !.pc = "crawl"]
         /\ Visited' = Visited \cup {URLString(ParseURL(cfg.TargetURL).u)}
         /\ crawls' = << NewCrawl(URLString(ParseURL(cfg.TargetURL).u), 0, TRUE) >>
    ELSE IF m.method = "HEAD" /\ ~IsAborted(e)
    THEN /\ main' = [m EXCEPT !.pc = "wait", !.method = "GET"]
         /\ UNCHANGED << Visited, crawls >>
    ELSE /\ main' = [m EXCEPT !.pc = "returned", !.ret = "err",
                              !.err = IF e = "aborted" THEN "aborted" ELSE "connect"]
         /\ UNCHANGED << Visited, crawls >>

\* doRequest lines 217-256: the response of the first attempt.
DoRequestRecv(o) ==
    /\ main.pc = "wait"
    /\ IF o.err # "" /\ IsCertError(o.err) /\ ~AlreadyInsecure
       THEN /\ main' = [main EXCEPT !.pc = "prompt"]
            /\ prompts' = prompts + 1
            /\ UNCHANGED << Visited, crawls >>
       ELSE /\ AfterDoRequest(main, IF o.err # "" THEN "other" ELSE StatusResult(o.status))
            /\ prompts' = prompts
    /\ UNCHANGED << cfg, site, workers, semaphore, insecure, validCache, Results,
                    wg, probes, cacheHist >>

\* promptInsecure lines 263-272, enableInsecure, and the retry of line 235.
PromptAnswer(r) ==
    /\ main.pc = "prompt"
    /\ IF Normalize(r) \in {"", "y", "yes"}
       THEN /\ insecure' = TRUE
            /\ main' = [main EXCEPT !.pc = "retry"]
            /\ UNCHANGED << Visited, crawls >>
       ELSE /\ insecure' = insecure
            /\ AfterDoRequest([main EXCEPT !.declined = r \in {"n", "no"}], "aborted")
    /\ UNCHANGED << cfg, site, workers, semaphore, validCache, Results, wg,
                    prompts, probes, cacheHist >>

\* doRequest lines 235-256: the response of the retried request.
DoRequestRetryRecv(o) ==
    /\ main.pc = "retry"
    /\ AfterDoRequest(main, IF o.err # "" THEN "other" ELSE StatusResult(o.status))
    /\ UNCHANGED << cfg, site, workers, semaphore, insecure, validCache, Results,
                    wg, prompts, probes, cacheHist >>

\* Start lines 186-187: the join barrier.
StartJoin ==
    /\ main.pc = "join"
    /\ WaitReturns
    /\ main' = StartReturn("nil", "")
    /\ UNCHANGED << cfg, site, workers, semaphore, insecure, Visited, validCache,
                    Results, wg, prompts, crawls, probes, cacheHist >>


(* ---------------------------------------------------------------------- *)
(* crawl (lines 289-348) and the goroutine that wraps it (lines 339-344).  *)
(*   pc: "acquire" blocked on c.semaphore <- struct{}{}, line 341          *)
(*       "entry"   at line 290                                             *)
(*       "get"     c.Client.Get of line 298 in flight                      *)
(*       "collect" in validateLinksParallel, ranging over results (391)    *)
(*       "loop"    the loop of lines 319-346, at validated[i]              *)
(*       "release" the deferred <-c.semaphore of line 342                  *)
(*       "wgdone"  the deferred c.wg.Done() of line 340                    *)
(*       "end"                                                             *)
(* ---------------------------------------------------------------------- *)
\* No response received (yet).
NoResponse == [err |-> "", status |-> 0, body |-> TRUE]

\* The record of one goroutine of validateLinksParallel (lines 361-382);
\* head: the response to its HEAD request, line 408.
NewProbe(c, l) ==
    [owner |-> c, l |-> l, pc |-> "acquire", abs |-> NoAddr, isExternal |-> FALSE,
     classified |-> FALSE, late |-> FALSE, requested |-> FALSE,
     returned |-> FALSE, ret |-> FALSE, head |-> NoResponse]

\* The call c of crawl returns: to Start (root) or to its goroutine's defers.
Returned(cs, c) ==
    [cs EXCEPT ![c].pc = IF cs[c].root THEN "end" ELSE "release"]

\* Start lines 183-186 when the call c returns e ("nil" or "err"); the
\* goroutine of line 343 discards the value.
MainAfterCrawl(c, e) ==
    IF ~crawls[c].root THEN main
    ELSE IF e = "err" THEN StartReturn("err", "crawl")
    ELSE [main EXCEPT !.pc = "join"]

\* Line 341: the spawned goroutine takes a token before it calls crawl.
BranchAcquire(c) ==
    /\ crawls[c].pc = "acquire"
    /\ CanAcquire
    /\ semaphore' = semaphore + 1
    /\ crawls' = [crawls EXCEPT ![c].pc = "entry"]
    /\ UNCHANGED << cfg, site, workers, insecure, Visited, validCache, Results,
                    wg, main, prompts, probes, cacheHist >>

\* Lines 290-298: depth check, parse, and the page GET is issued.
CrawlEntry(c) ==
    /\ crawls[c].pc = "entry"
    /\ IF DepthStop(crawls[c].depth)
       THEN /\ crawls' = Returned(crawls, c)
            /\ main' = MainAfterCrawl(c, "nil")
       ELSE IF ~ParseURL(crawls[c].url).ok
       THEN /\ crawls' = Returned(crawls, c)
            /\ main' = MainAfterCrawl(c, "err")
       ELSE /\ crawls' = [crawls EXCEPT ![c].pc = "get", ![c].fetched = TRUE]
            /\ main' = main
    /\ UNCHANGED << cfg, site, workers, semaphore, insecure, Visited, validCache,
                    Results, wg, prompts, probes, cacheHist >>

\* Lines 298-317 and 355-383: the response of the page GET; on a 200 whose
\* body is read, Extract and one probe goroutine per link.
CrawlFetchResp(c, o) ==
    /\ crawls[c].pc = "get"
    /\ IF o.err # "" \/ o.status # 200
       THEN /\ crawls' = Returned(crawls, c)
            /\ main' = MainAfterCrawl(c, "nil")
            /\ probes' = probes
       ELSE IF ~o.body
       THEN /\ crawls' = Returned(crawls, c)
            /\ main' = MainAfterCrawl(c, "err")
            /\ probes' = probes
       ELSE LET links == Extract(site, crawls[c].url)
            IN  /\ crawls' = [crawls EXCEPT ![c].pc = "collect"]
                /\ main' = main
                /\ probes' = probes \o [k \in 1..Len(links) |-> NewProbe(c, links[k])]
    /\ UNCHANGED << cfg, site, workers, semaphore, insecure, Visited, validCache,
                    Results, wg, prompts, cacheHist >>

\* Lines 385-394: wg.Wait, close(results), and the range over results ends.
CrawlCollect(c) ==
    /\ crawls[c].pc = "collect"
    /\ \A p \in 1..Len(probes) : probes[p].owner = c => probes[p].pc = "end"
    /\ crawls' = [crawls EXCEPT ![c].pc = "loop", ![c].validated = crawls[c].results,
                                ![c].results = << >>, ![c].i = 1]
    /\ UNCHANGED << cfg, site, workers, semaphore, insecure, Visited, validCache,
                    Results, wg, main, prompts, probes, cacheHist >>

\* Lines 319-347: one iteration of the loop over validLinks, or its end.
CrawlLoop(c) ==
    /\ crawls[c].pc = "loop"
    /\ IF crawls[c].i > Len(crawls[c].validated)
       THEN /\ crawls' = Returned(crawls, c)
            /\ main' = MainAfterCrawl(c, "nil")
            /\ UNCHANGED << Visited, Results, wg >>
       ELSE LET li == crawls[c].validated[crawls[c].i]
                r == LoadOrStore(Visited, li.url)
                next == [crawls EXCEPT ![c].i = crawls[c].i + 1]
            IN  /\ main' = main
                /\ IF r.loaded
                   THEN /\ crawls' = next
                        /\ UNCHANGED << Visited, Results, wg >>
                   ELSE /\ Visited' = r.set
                        /\ IF IsExternalLink(li)
                           THEN /\ Results' = IF RecordsExternal
                                              THEN Append(Results, li.url) ELSE Results
                                /\ crawls' = next
                                /\ wg' = wg
                           ELSE /\ Results' = IF RecordsInternal
                                              THEN Append(Results, li.url) ELSE Results
                                /\ crawls' = Append(next, NewCrawl(li.url, crawls[c].depth + 1, FALSE))
                                /\ wg' = wg + 1
    /\ UNCHANGED << cfg, site, workers, semaphore, insecure, validCache, prompts,
                    probes, cacheHist >>

\* Line 342: the deferred release of the token.
BranchRelease(c) ==
    /\ crawls[c].pc = "release"
    /\ semaphore' = semaphore - 1
    /\ crawls' = [crawls EXCEPT ![c].pc = "wgdone"]
    /\ UNCHANGED << cfg, site, workers, insecure, Visited, validCache, Results,
                    wg, main, prompts, probes, cacheHist >>

\* Line 340: the deferred c.wg.Done().
BranchDone(c) ==
    /\ crawls[c].pc = "wgdone"
    /\ wg' = wg - 1
    /\ crawls' = [crawls EXCEPT ![c].pc = "end", ![c].validated = << >>, ![c].i = 0]
    /\ UNCHANGED << cfg, site, workers, semaphore, insecure, Visited, validCache,
                    Results, main, prompts, probes, cacheHist >>

(* ---------------------------------------------------------------------- *)
(* One goroutine of validateLinksParallel (lines 361-382) with its call    *)
(* of validateLink (lines 397-421).                                        *)
(*   pc: "acquire" blocked on c.semaphore <- struct{}{}, line 363          *)
(*       "run"     at line 366                                             *)
(*       "head"    c.FastClient.Do of line 408 in flight                   *)
(*       "release" the deferred <-c.semaphore of line 364 and the deferred *)
(*                 wg.Done() of line 362                                   *)
(*       "end"                                                             *)
(* ---------------------------------------------------------------------- *)
\* results <- linkInfo{...}, lines 377-380, on the channel of the owner.
Send(cs, c, abs, isExternal) ==
    [cs EXCEPT ![c].results = Append(cs[c].results, [url |-> abs, isExternal |-> isExternal])]

\* c.validCache.Store(u, v), with the history of the entry; good: the HEAD
\* that led to the store was answered with a status in 200..399.
StoreHist(u, v, good) ==
    IF u \in DOMAIN cacheHist
    THEN [cacheHist EXCEPT ![u].changed = cacheHist[u].changed \/ validCache[u] # v,
                           ![u].good = cacheHist[u].good \/ good]
    ELSE (u :> [first |-> v, changed |-> FALSE, good |-> good]) @@ cacheHist

ProbeAcquire(p) ==
    /\ probes[p].pc = "acquire"
    /\ CanAcquire
    /\ semaphore' = semaphore + 1
    /\ probes' = [probes EXCEPT ![p].pc = "run"]
    /\ UNCHANGED << cfg, site, workers, insecure, Visited, validCache, Results,
                    wg, main, prompts, crawls, cacheHist >>

\* Lines 366-381 up to the request of validateLink (lines 398-408): resolve,
\* classify, filter, look the address up in the cache, issue the HEAD.
ProbeRun(p) ==
    /\ probes[p].pc = "run"
    /\ LET base == ParseURL(crawls[probes[p].owner].url).u
           res == ResolveRef(base, probes[p].l)
           abs == URLString(res.u)
           ext == IsExternal(res.u, base)
           hit == CacheLoad(abs)
           seen == [probes[p] EXCEPT !.abs = abs, !.isExternal = ext, !.classified = TRUE]
       IN  IF ~res.ok
           THEN /\ probes' = [probes EXCEPT ![p].pc = "release"]
                /\ crawls' = crawls
           ELSE IF FilteredOut(ext)
           THEN /\ probes' = [probes EXCEPT ![p] = [seen EXCEPT !.pc = "release"]]
                /\ crawls' = crawls
           ELSE IF hit.ok
           THEN /\ probes' = [probes EXCEPT ![p] =
                                [seen EXCEPT !.pc = "release", !.returned = TRUE,
                                             !.ret = hit.val,
                                             !.late = abs \in DOMAIN cacheHist]]
                /\ crawls' = IF hit.val THEN Send(crawls, probes[p].owner, abs, ext)
                             ELSE crawls
           ELSE /\ probes' = [probes EXCEPT ![p] =
                                [seen EXCEPT !.pc = "head", !.requested = TRUE,
                                             !.late = abs \in DOMAIN cacheHist]]
                /\ crawls' = crawls
    /\ UNCHANGED << cfg, site, workers, semaphore, insecure, Visited, validCache,
                    Results, wg, main, prompts, cacheHist >>

\* Lines 408-420 and 376-381: the response of the HEAD; store, return, send.
ProbeHeadResp(p, o) ==
    /\ probes[p].pc = "head"
    /\ LET valid == o.err = "" /\ ValidStatus(o.status)
           abs == probes[p].abs
       IN  /\ validCache' = (abs :> valid) @@ validCache
           /\ cacheHist' = StoreHist(abs, valid, o.err = "" /\ o.status \in 200..399)
           /\ probes' = [probes EXCEPT ![p].pc = "release", ![p].returned = TRUE,
                                       ![p].ret = valid, ![p].head = o]
           /\ crawls' = IF valid
                        THEN Send(crawls, probes[p].owner, abs, probes[p].isExternal)
                        ELSE crawls
    /\ UNCHANGED << cfg, site, workers, semaphore, insecure, Visited, Results, wg,
                    main, prompts >>

\* The goroutine has ended: its locals are gone.
Ended(r) == [NewProbe(r.owner, r.l) EXCEPT !.pc = "end"]

\* Lines 364 and 362: the deferred release of the token, then the deferred
\* wg.Done() of the local wait group; the goroutine ends.
ProbeRelease(p) ==
    /\ probes[p].pc = "release"
    /\ semaphore' = semaphore - 1
    /\ probes' = [probes EXCEPT ![p] = Ended(probes[p])]
    /\ UNCHANGED << cfg, site, workers, insecure, Visited, validCache, Results,
                    wg, main, prompts, crawls, cacheHist >>

(* ---------------------------------------------------------------------- *)
(* The specification.                                                      *)
(* ---------------------------------------------------------------------- *)
Next ==
    \/ StartParse
    \/ \E o \in Outcomes : DoRequestRecv(o)
    \/ \E r \in Answers : PromptAnswer(r)
    \/ \E o \in Outcomes : DoRequestRetryRecv(o)
    \/ StartJoin
    \/ \E c \in 1..Len(crawls) : BranchAcquire(c)
    \/ \E c \in 1..Len(crawls) : CrawlEntry(c)
    \/ \E c \in 1..Len(crawls) : \E o \in FetchOutcomes : CrawlFetchResp(c, o)
    \/ \E c \in 1..Len(crawls) : CrawlCollect(c)
    \/ \E c \in 1..Len(crawls) : CrawlLoop(c)
    \/ \E c \in 1..Len(crawls) : BranchRelease(c)
    \/ \E c \in 1..Len(crawls) : BranchDone(c)
    \/ \E p \in 1..Len(probes) : ProbeAcquire(p)
    \/ \E p \in 1..Len(probes) : ProbeRun(p)
    \/ \E p \in 1..Len(probes) : \E o \in Outcomes : ProbeHeadResp(p, o)
    \/ \E p \in 1..Len(probes) : ProbeRelease(p)

Spec == Init /\ [][Next]_vars

(* ---------------------------------------------------------------------- *)
(* The same program over a network whose answers are fixed: every address  *)
(* answers 200 to HEAD and GET with a readable body, and the seed's host   *)
(* of site A presents a certificate that only a client with                *)
(* InsecureSkipVerify accepts.                                             *)
(* ---------------------------------------------------------------------- *)
Reach(a) ==
    IF site = "A" /\ a[1] = SeedHost /\ ~insecure
    THEN [err |-> "x509: certificate signed by unknown authority", status |-> 0,
          body |-> TRUE]
    ELSE [err |-> "", status |-> 200, body |-> TRUE]

NextFixed ==
    \/ StartParse
    \/ DoRequestRecv(Reach(cfg.TargetURL))
    \/ \E r \in Answers : PromptAnswer(r)
    \/ DoRequestRetryRecv(Reach(cfg.TargetURL))
    \/ StartJoin
    \/ \E c \in 1..Len(crawls) : BranchAcquire(c)
    \/ \E c \in 1..Len(crawls) : CrawlEntry(c)
    \/ \E c \in 1..Len(crawls) : CrawlFetchResp(c, Reach(crawls[c].url))
    \/ \E c \in 1..Len(crawls) : CrawlCollect(c)
    \/ \E c \in 1..Len(crawls) : CrawlLoop(c)
    \/ \E c \in 1..Len(crawls) : BranchRelease(c)
    \/ \E c \in 1..Len(crawls) : BranchDone(c)
    \/ \E p \in 1..Len(probes) : ProbeAcquire(p)
    \/ \E p \in 1..Len(probes) : ProbeRun(p)
    \/ \E p \in 1..Len(probes) : ProbeHeadResp(p, Reach(probes[p].abs))
    \/ \E p \in 1..Len(probes) : ProbeRelease(p)

SpecFixed == Init /\ [][NextFixed]_vars


(* ---------------------------------------------------------------------- *)
(* Properties.                                                             *)
(* ---------------------------------------------------------------------- *)
HostOf(s) == ParseURL(s).u.Host
SeedHostOf == HostOf(cfg.TargetURL)
Crawls == 1..Len(crawls)
Probes == 1..Len(probes)

\* The call c has handled an entry of validLinks with address u.
Handled(c, u) ==
    /\ crawls[c].pc = "loop"
    /\ \E k \in 1..Len(crawls[c].validated) :
          k < crawls[c].i /\ crawls[c].validated[k].url = u

\* C1: every absolute address occurs at most once in Results.
C1_ResultsUnique ==
    \A i, j \in 1..Len(Results) : Results[i] = Results[j] => i = j

\* C1 witness: two calls of crawl running at the same time have each handled
\* a validated link to the same address, which is in Results.
C1_Witness ==
    \E c, d \in Crawls : \E i \in 1..Len(Results) :
        c # d /\ Handled(c, Results[i]) /\ Handled(d, Results[i])

\* C2 (as claimed): as long as Start has not returned, some step of the run
\* can be taken: no state has every remaining goroutine blocked forever.
C2_StartReturns == main.ret # "none" \/ ENABLED Next

\* C3: the network operations in flight never exceed the gate capacity.
C3_InFlightBounded == InFlight <= workers

\* C3 witness: the gate is full of network operations while a further probe
\* waits for a token.
C3_Witness ==
    /\ workers >= 2
    /\ InFlight = workers
    /\ \E p \in Probes : probes[p].pc = "acquire"

\* C4: a page is fetched by crawl only at a depth below MaxDepth.
C4_FetchBelowMaxDepth ==
    \A c \in Crawls : crawls[c].fetched => crawls[c].depth < cfg.MaxDepth

\* C4 witness: a spawned call of crawl at depth MaxDepth has returned
\* without a fetch.
C4_Witness ==
    \E c \in Crawls :
        /\ ~crawls[c].root /\ crawls[c].depth = cfg.MaxDepth
        /\ crawls[c].pc = "release" /\ ~crawls[c].fetched

\* C5: promptInsecure is entered at most once per run.
C5_PromptAtMostOnce == prompts <= 1

\* C5 witness: after an accepted prompt the connectivity check issues its
\* GET fallback, a request that may again fail on the certificate.
C5_Witness ==
    prompts = 1 /\ insecure /\ main.pc = "wait" /\ main.method = "GET"

AllEnded ==
    /\ \A c \in Crawls : crawls[c].pc = "end"
    /\ \A p \in Probes : probes[p].pc = "end"

\* C6: once Start has returned nil, every crawl branch and probe has ended,
\* no token is held, and Results is not appended to any more.
C6_JoinBarrier ==
    /\ [](main.ret = "nil" => AllEnded /\ semaphore = 0 /\ InFlight = 0)
    /\ [][main.ret = "nil" => Results' = Results]_vars

\* C6 witness: Start has returned nil after a run that spawned branches and
\* recorded addresses.
C6_Witness ==
    main.ret = "nil" /\ Len(crawls) >= 3 /\ Len(Results) >= 2

\* C7 (as claimed): Start returns an error only for an unparsable seed, a
\* failed connectivity check or a declined prompt.
C7_OnlyStartupErrors ==
    main.ret = "err" => main.err \in {"parse", "connect", "aborted"}

\* C8: with OnlyInternal set, every address in Results has the seed's host.
C8_InternalOnly ==
    cfg.OnlyInternal => \A i \in 1..Len(Results) : HostOf(Results[i]) = SeedHostOf

\* C8 witness: with OnlyInternal set, an address was recorded and a probe
\* has dropped an external candidate.
C8_Witness ==
    /\ cfg.OnlyInternal /\ Len(Results) >= 1
    /\ \E p \in Probes : probes[p].pc = "release" /\ probes[p].isExternal

\* C9: the isExternal flag of every classified candidate says whether the
\* resolved host differs from the seed's host.
C9_ClassifiedAgainstSeed ==
    \A p \in Probes :
        probes[p].classified =>
            (probes[p].isExternal <=> HostOf(probes[p].abs) # SeedHostOf)

\* C9 witness: a candidate found on a page other than the seed was
\* classified external.
C9_Witness ==
    \E p \in Probes :
        /\ probes[p].classified /\ probes[p].isExternal
        /\ ~crawls[probes[p].owner].root

\* C10 (as claimed): a call of validateLink(u) made after a value was stored
\* for u returns the first stored value and issues no request.
C10_FirstValueForever ==
    \A p \in Probes :
        probes[p].late /\ probes[p].returned =>
            /\ ~probes[p].requested
            /\ probes[p].ret = cacheHist[probes[p].abs].first

\* C10 (amended): such a call issues no request, and returns the first
\* stored value unless a call that had missed the cache before that store
\* has since overwritten the entry with a different result.
C10_CachedValue ==
    \A p \in Probes :
        probes[p].late =>
            /\ ~probes[p].requested
            /\ probes[p].returned =>
                  \/ probes[p].ret = cacheHist[probes[p].abs].first
                  \/ cacheHist[probes[p].abs].changed

\* C10 witness: a call made after the store has returned the stored value,
\* with calls on another address since the store.
C10_Witness ==
    \E p \in Probes :
        /\ probes[p].late /\ probes[p].returned
        /\ probes[p].ret = cacheHist[probes[p].abs].first
        /\ ~cacheHist[probes[p].abs].changed
        /\ \E q \in Probes : probes[q].owner = probes[p].owner /\ q # p
                              /\ probes[q].pc = "release"
                              /\ probes[q].abs # probes[p].abs


\* Some HEAD probe of address u was answered with a status in 200..399.
ProbedGood(u) == u \in DOMAIN cacheHist /\ cacheHist[u].good

C12_DeclineAborts ==
    main.declined =>
        /\ main.ret = "err" /\ main.err = "aborted"
        /\ InFlight = 0 /\ Len(crawls) = 0 /\ Len(probes) = 0
        /\ Results = << >> /\ ~insecure

\* C12 witness: the operator has declined at the prompt raised by the HEAD
\* of the connectivity check.
C12_Witness ==
    main.declined /\ main.method = "HEAD" /\ prompts = 1


\* C13 (as claimed): while the clients verify certificates, a request that
\* fails on the certificate leads to the operator prompt: no probe ends on a
\* certificate failure with no prompt issued.
C13_CertFailureEscalates ==
    \A p \in Probes :
        IsCertError(probes[p].head.err) /\ ~insecure => prompts = 1

\* C14 (as claimed): a reachability check does not decide on a HEAD that was
\* answered 405: the connectivity check reports failure only after its GET,
\* and no probe returns unreachable from the 405 of its HEAD.
C14_HeadThenGet ==
    /\ main.ret = "err" /\ main.err = "connect" => main.method = "GET"
    /\ \A p \in Probes :
          probes[p].head.status = 405 => ~(probes[p].returned /\ ~probes[p].ret)


\* The goroutine of the call c of crawl holds a token (lines 341-342).
CrawlHoldsToken(c) ==
    ~crawls[c].root /\ crawls[c].pc \in {"entry", "get", "collect", "loop", "release"}

\* The probe goroutine p holds a token (lines 363-364).
ProbeHoldsToken(p) == probes[p].pc \in {"run", "head", "release"}

\* The tokens in the semaphore are those of the goroutines that hold one.
TokensAccounted ==
    semaphore = Cardinality({c \in Crawls : CrawlHoldsToken(c)})
                + Cardinality({p \in Probes : ProbeHoldsToken(p)})

\* C15 (as claimed): every request in flight, the requests of the
\* connectivity check and the GET of the seed page included, is issued by a
\* goroutine that holds a token.
C15_EveryRequestHoldsToken ==
    /\ main.pc \notin {"wait", "retry"}
    /\ \A c \in Crawls : crawls[c].pc = "get" => CrawlHoldsToken(c)
    /\ \A p \in Probes : probes[p].pc = "head" => ProbeHoldsToken(p)

\* The part of C15 that the code keeps: apart from the main goroutine, every
\* request in flight is covered by a token.
C15_SpawnedRequestsHoldToken ==
    /\ TokensAccounted
    /\ \A c \in Crawls : crawls[c].pc = "get" /\ ~crawls[c].root => CrawlHoldsToken(c)
    /\ InFlight - (IF main.pc \in {"wait", "retry"} \/ (\E c \in Crawls : crawls[c].root /\ crawls[c].pc = "get") THEN 1 ELSE 0) <= semaphore


\* C16: no two calls of crawl, the call for the seed included, are for the
\* same address: one branch per address, and no address fetched twice.
C16_OneCrawlPerAddress ==
    \A c, d \in Crawls : crawls[c].url = crawls[d].url => c = d

\* C16 witness: two calls of crawl running at the same time have each
\* handled a validated link to the same internal address, for which one
\* call of crawl exists.
C16_Witness ==
    \E c, d, e \in Crawls :
        /\ c # d /\ ~crawls[e].root
        /\ Handled(c, crawls[e].url) /\ Handled(d, crawls[e].url)


\* C17: while the operator prompt is outstanding no request is in flight and
\* no crawl or probe goroutine exists that could issue one.
C17_PromptAlone ==
    main.pc = "prompt" => InFlight = 0 /\ Len(crawls) = 0 /\ Len(probes) = 0

\* C17 witness: the prompt is outstanding for the GET fallback of the
\* connectivity check, after the HEAD has failed otherwise.
C17_Witness ==
    main.pc = "prompt" /\ main.method = "GET" /\ prompts = 1

\* C18: every call of crawl, hence every page fetch, is for an address with
\* the seed's host; an address with another host has no call of crawl.
C18_OnlyInternalCrawled ==
    \A c \in Crawls : HostOf(crawls[c].url) = SeedHostOf

\* C18 witness: the run has returned with an external address in Results and
\* a fetched internal page other than the seed.
C18_Witness ==
    /\ main.ret = "nil"
    /\ \E i \in 1..Len(Results) : HostOf(Results[i]) # SeedHostOf
    /\ \E c \in Crawls : ~crawls[c].root /\ crawls[c].fetched

\* C20: with OnlyExternal set and OnlyInternal unset, Results holds no
\* address with the seed's host, while every validated link a call of crawl
\* has handled is in Visited and, when internal, has its call of crawl.
C20_ExternalOnly ==
    cfg.OnlyExternal /\ ~cfg.OnlyInternal =>
        /\ \A i \in 1..Len(Results) : HostOf(Results[i]) # SeedHostOf
        /\ \A c \in Crawls : \A k \in 1..Len(crawls[c].validated) :
              k < crawls[c].i =>
                  /\ crawls[c].validated[k].url \in Visited
                  /\ HostOf(crawls[c].validated[k].url) = SeedHostOf =>
                        \E d \in Crawls : crawls[d].url = crawls[c].validated[k].url

\* C20 witness: with OnlyExternal set, the external address that only the
\* internal page /q (depth 1) links is in Results.
C20_Witness ==
    /\ cfg.OnlyExternal /\ ~cfg.OnlyInternal /\ site = "B"
    /\ \E i \in 1..Len(Results) : Results[i] = << ExtHost, Q >>
    /\ \E c \in Crawls : crawls[c].url = << SeedHost, Q >> /\ crawls[c].depth = 1
                          /\ crawls[c].fetched


\* The addresses the links in the body of page a resolve to (lines 366-369).
Targets(a) ==
    LET links == Extract(site, a)
        res(k) == ResolveRef(ParseURL(a).u, links[k])
    IN  {URLString(res(k).u) : k \in {j \in 1..Len(links) : res(j).ok}}

\* The internal addresses at most k links away from the seed.
RECURSIVE Within(_)
Within(k) ==
    IF k = 0 THEN {URLString(ParseURL(cfg.TargetURL).u)}
    ELSE Within(k - 1) \cup
         {t \in UNION {Targets(a) : a \in Within(k - 1)} : HostOf(t) = SeedHostOf}

\* What Results holds when every internal address is fetched at its least
\* distance from the seed: the link targets of the pages less than MaxDepth
\* links away, without the seed, under the filter mode.
ShortestPathResults ==
    IF cfg.MaxDepth = 0 THEN {}
    ELSE {t \in UNION {Targets(a) : a \in Within(cfg.MaxDepth - 1)} :
            /\ t # URLString(ParseURL(cfg.TargetURL).u)
            /\ IF HostOf(t) = SeedHostOf THEN RecordsInternal ELSE RecordsExternal}

ResultSet == {Results[i] : i \in 1..Len(Results)}

\* C19: over the fixed network, when Start has returned nil the set of
\* addresses in Results is the one set the site graph, MaxDepth and the
\* filter mode determine, whatever the interleaving of the branches was.
C19_SameSetEverySchedule ==
    main.ret = "nil" => ResultSet = ShortestPathResults

\* C19, the schedules that agree: on site B with MaxDepth = 2 and no filter a
\* run returns with the external address that only /q links in Results.
C19_ShortestReached ==
    /\ main.ret = "nil" /\ site = "B" /\ cfg.MaxDepth = 2
    /\ ~cfg.OnlyInternal /\ ~cfg.OnlyExternal
    /\ ResultSet = ShortestPathResults
    /\ << ExtHost, Q >> \in ResultSet

\* C19, what does hold: Results never holds an address outside that set, and
\* the two sets differ only where an internal address has paths of different
\* lengths from the seed (site B).
C19_NoMoreThanShortest ==
    /\ ResultSet \subseteq ShortestPathResults
    /\ main.ret = "nil" /\ site = "A" => ResultSet = ShortestPathResults

====
